---- MODULE Spec2Model ----
(***************************************************************************)
(* Model of CommandLineApplication.go: the fixlet record manager.          *)
(*                                                                         *)
(* State: the CSV file on disk, the in-memory slice `entries`, the         *)
(* variable `command` of main (declared outside the loop, so it survives   *)
(* from one iteration to the next), and what the last iteration printed.   *)
(* One action per iteration of main's loop, one for the load at startup.   *)
(*                                                                         *)
(* Text is a sequence of one-character strings.  A file is the sequence    *)
(* of records encoding/csv's Reader yields for it: each row is either a    *)
(* sequence of text fields or a row the Reader fails on (a quoting error). *)
(* The Reader's and Writer's quoting is library code and is represented by *)
(* its result, the fields; strconv.Itoa/Atoi are computed on the text.     *)
(*                                                                         *)
(* Input: every fmt.Scanln reads one line holding one token of the wanted  *)
(* type, or no token (an empty line, or end of input); with no token       *)
(* Scanln returns an error, which main ignores, and leaves its variable    *)
(* as it was.  Once os.Create has succeeded the writes are taken to        *)
(* succeed (WriteCSV ignores the errors of Write, Flush and Close).        *)
(***************************************************************************)
EXTENDS Integers, Sequences, FiniteSets, TLC

\* Bounds of the model.
MaxLen == 3
MaxRows == 2
MaxFails == 1
MaxSeq == 3

VARIABLES pc, file, entries, command, out, last, fails, dirty, undo

vars == <<pc, file, entries, command, out, last, fails, dirty, undo>>

----------------------------------------------------------------------------
\* Text and numbers

Digits == <<"0", "1", "2", "3", "4", "5", "6", "7", "8", "9">>

Uppers == <<"A", "B", "C", "D", "E", "F", "G", "H", "I", "J", "K", "L", "M",
            "N", "O", "P", "Q", "R", "S", "T", "U", "V", "W", "X", "Y", "Z">>

Lowers == <<"a", "b", "c", "d", "e", "f", "g", "h", "i", "j", "k", "l", "m",
            "n", "o", "p", "q", "r", "s", "t", "u", "v", "w", "x", "y", "z">>

IsDigit(c) == \E d \in 1..10 : Digits[d] = c

DigitVal(c) == (CHOOSE d \in 1..10 : Digits[d] = c) - 1

\* strconv.Itoa on a non-negative number
RECURSIVE FormatUint(_)
FormatUint(n) ==
    IF n < 10 THEN <<Digits[n + 1]>>
    ELSE Append(FormatUint(n \div 10), Digits[(n % 10) + 1])

\* strconv.Itoa
Itoa(n) == IF n < 0 THEN <<"-">> \o FormatUint(-n) ELSE FormatUint(n)

RECURSIVE ParseDigits(_, _, _)
ParseDigits(s, i, n) ==
    IF i > Len(s) THEN [ok |-> TRUE, val |-> n]
    ELSE IF ~IsDigit(s[i]) THEN [ok |-> FALSE, val |-> 0]
    ELSE ParseDigits(s, i + 1, n * 10 + DigitVal(s[i]))

\* strconv.Atoi on a text short enough not to overflow: the value, and whether
\* the text is a number (an optional sign, then at least one digit).
Atoi(s) ==
    IF Len(s) = 0 THEN [ok |-> FALSE, val |-> 0]
    ELSE LET signed == s[1] \in {"-", "+"}
             body   == IF signed THEN SubSeq(s, 2, Len(s)) ELSE s
             r      == ParseDigits(body, 1, 0)
         IN  IF Len(body) < 1 THEN [ok |-> FALSE, val |-> 0]
             ELSE IF ~r.ok THEN r
             ELSE [ok |-> TRUE, val |-> IF s[1] = "-" THEN -r.val ELSE r.val]

\* x, _ := strconv.Atoi(field): the error is dropped, the value is 0 on error
AtoiIgnoreErr(s) == Atoi(s).val

ToLowerChar(c) ==
    IF \E i \in 1..26 : Uppers[i] = c
    THEN Lowers[CHOOSE i \in 1..26 : Uppers[i] = c]
    ELSE c

\* strings.ToLower
ToLower(s) == [i \in 1..Len(s) |-> ToLowerChar(s[i])]

\* strings.Contains(s, substr)
Contains(s, substr) ==
    \E i \in 0..(Len(s) - Len(substr)) : SubSeq(s, i + 1, i + Len(substr)) = substr

----------------------------------------------------------------------------
\* Records, rows and files

Entry(siteID, fxiletID, name, criticality, relevantComputerCount) ==
    [SiteID |-> siteID, FxiletID |-> fxiletID, Name |-> name,
     Criticality |-> criticality, RelevantComputerCount |-> relevantComputerCount]

\* A record the csv Reader returns, and a row it returns an error for.
Row(fields) == [err |-> FALSE, fields |-> fields]

BadRow == [err |-> TRUE, fields |-> <<>>]

HeaderRow ==
    Row(<< <<"S", "i", "t", "e", "I", "D">>,
           <<"F", "x", "i", "l", "e", "t", "I", "D">>,
           <<"N", "a", "m", "e">>,
           <<"C", "r", "i", "t", "i", "c", "a", "l", "i", "t", "y">>,
           <<"R", "e", "l", "e", "v", "a", "n", "t", "C", "o", "m", "p", "u", "t",
             "e", "r", "C", "o", "u", "n", "t">> >>)

\* The records a user enters with add in a session.  The second one is what
\* five empty lines give: every Scanln fails and every variable keeps its
\* zero value.
NewEntries ==
    { Entry(1, 12, <<"P", "a">>, <<"H", "i">>, -3),
      Entry(0, 0, <<>>, <<>>, 0) }

\* The keys a user enters with delete (0: an empty line).
DeleteKeys == {0, 12, 999}

\* The words a user enters with query (<<>>: an empty line).
Queries == { <<>>, <<"h", "i">> }

\* The lines a user enters at the menu ("": no token).
CommandLines == {"list", "query", "add", "delete", "sort", "exit", "bogus", ""}

\* The rows and headers of the files the program is started on: a row of
\* numbers, a row whose numbers do not parse, a short row, an unreadable row.
InitRows ==
    { Row(<< <<"1">>, <<"1", "2">>, <<"P", "a">>, <<"H", "i">>, <<"-", "3">> >>),
      Row(<< <<"x">>, <<"+", "0">>, <<>>, <<>>, <<>> >>),
      Row(<< <<"1">>, <<"2">> >>),
      BadRow }

InitHeaders == { HeaderRow, Row(<< <<"A">>, <<"B">> >>), BadRow }

\* The arguments the functions are applied to on their own: records that
\* share a key, a count, a name or a criticality, in every order.
FnEntries ==
    { Entry(1, 12, <<"P", "a">>, <<"H", "i">>, 5),
      Entry(0, 12, <<"p", "b">>, <<"L", "o">>, 5),
      Entry(2, 7, <<"P", "a">>, <<"L", "o">>, -3),
      Entry(0, 0, <<>>, <<>>, 0) }

FnKeys == {0, 7, 12, 999}

FnQueries == { <<>>, <<"h", "i">>, <<"P">>, <<"L", "O">>, <<"z">> }

\* The sequences of at most n elements of S.
SeqsUpTo(S, n) == UNION { [1..k -> S] : k \in 0..n }

\* An empty file, or a header and at most MaxRows rows.
InitFiles ==
    { <<>> } \cup
    { <<h>> \o rs : h \in InitHeaders, rs \in SeqsUpTo(InitRows, MaxRows) }

----------------------------------------------------------------------------
\* The functions of the program

\* One printed line: a fixed message, or the Printf line of one record.
Line(text) == [text |-> text, e |-> <<>>]

EntryLine(entry) == [text |-> "entry", e |-> <<entry>>]

\* The Entry built from one record of the Reader (record[0..4]).
ParseRecord(record) ==
    Entry(AtoiIgnoreErr(record[1]), AtoiIgnoreErr(record[2]), record[3], record[4],
          AtoiIgnoreErr(record[5]))

\* The loop of ReadCSV from row i on; n is the number of fields of the header,
\* which the Reader (FieldsPerRecord = 0) demands of every later record.
\* A record with fewer than five fields makes record[4] (or record[1]) panic.
RECURSIVE ReadRows(_, _, _, _)
ReadRows(f, i, n, acc) ==
    IF i > Len(f) THEN [err |-> FALSE, panic |-> FALSE, entries |-> acc]
    ELSE IF f[i].err \/ Len(f[i].fields) # n
         THEN [err |-> FALSE, panic |-> FALSE, entries |-> acc]
    ELSE IF Len(f[i].fields) < 5
         THEN [err |-> FALSE, panic |-> TRUE, entries |-> acc]
    ELSE ReadRows(f, i + 1, n, Append(acc, ParseRecord(f[i].fields)))

\* ReadCSV: opened is whether os.Open succeeds; f is the file's rows.
ReadCSV(opened, f) ==
    IF ~opened THEN [err |-> TRUE, panic |-> FALSE, entries |-> <<>>]
    ELSE IF Len(f) = 0 \/ f[1].err
         THEN [err |-> TRUE, panic |-> FALSE, entries |-> <<>>]
    ELSE ReadRows(f, 2, Len(f[1].fields), <<>>)

\* The row WriteCSV writes for one entry.
EntryRow(entry) ==
    Row(<<Itoa(entry.SiteID), Itoa(entry.FxiletID), entry.Name, entry.Criticality,
          Itoa(entry.RelevantComputerCount)>>)

\* A slip: the two id columns written in the wrong order.
WriteCSVSwapped(f, es, created) ==
    IF ~created THEN [err |-> TRUE, file |-> f]
    ELSE [err |-> FALSE,
          file |-> <<HeaderRow>> \o
                   [i \in 1..Len(es) |->
                       Row(<<Itoa(es[i].FxiletID), Itoa(es[i].SiteID), es[i].Name,
                             es[i].Criticality, Itoa(es[i].RelevantComputerCount)>>)]]

\* WriteCSV: created is whether os.Create succeeds; f is the file before.
\* When os.Create fails the file is left as it was.
WriteCSV(f, es, created) ==
    IF ~created THEN [err |-> TRUE, file |-> f]
    ELSE [err |-> FALSE,
          file |-> <<HeaderRow>> \o [i \in 1..Len(es) |-> EntryRow(es[i])]]

\* ListEntries: the lines it prints.
ListEntries(es) ==
    IF Len(es) = 0 THEN <<Line("No entries available.")>>
    ELSE [i \in 1..Len(es) |-> EntryLine(es[i])]

RECURSIVE QueryFrom(_, _, _)
QueryFrom(es, query, i) ==
    IF i > Len(es) THEN <<Line("No entries found.")>>
    ELSE IF \/ Contains(ToLower(es[i].Name), ToLower(query))
            \/ Contains(ToLower(es[i].Criticality), ToLower(query))
         THEN <<EntryLine(es[i])>>
    ELSE QueryFrom(es, query, i + 1)

\* A slip: every matching record is printed, not only the first.
RECURSIVE QueryAllFrom(_, _, _)
QueryAllFrom(es, query, i) ==
    IF i > Len(es) THEN <<>>
    ELSE IF \/ Contains(ToLower(es[i].Name), ToLower(query))
            \/ Contains(ToLower(es[i].Criticality), ToLower(query))
         THEN <<EntryLine(es[i])>> \o QueryAllFrom(es, query, i + 1)
    ELSE QueryAllFrom(es, query, i + 1)

QueryEntryAll(es, query) ==
    IF QueryAllFrom(es, query, 1) = <<>> THEN <<Line("No entries found.")>>
    ELSE QueryAllFrom(es, query, 1)

\* QueryEntry: the lines it prints.
QueryEntry(es, query) == QueryFrom(es, query, 1)

Perms(n) == { p \in [1..n -> 1..n] : \A i, j \in 1..n : i # j => p[i] # p[j] }

\* A slip: the comparison turned around (descending order).
SortEntriesDescending(es) ==
    { [i \in 1..Len(es) |-> es[p[i]]] :
        p \in { q \in Perms(Len(es)) :
                  \A i \in 1..(Len(es) - 1) :
                     ~(es[q[i]].RelevantComputerCount
                         < es[q[i + 1]].RelevantComputerCount) } }

\* SortEntries: the orders sort.Slice can leave the slice in.  sort.Slice
\* promises an order in which no element is less than the one before it and
\* nothing about elements that compare equal ("The sort is not guaranteed to
\* be stable"); which of these orders comes out depends on the release of the
\* library and on the length of the slice, so each of them is an outcome.
SortEntries(es) ==
    { [i \in 1..Len(es) |-> es[p[i]]] :
        p \in { q \in Perms(Len(es)) :
                  \A i \in 1..(Len(es) - 1) :
                     ~(es[q[i + 1]].RelevantComputerCount
                         < es[q[i]].RelevantComputerCount) } }

\* A slip: the new record put in front instead of at the end.
AddEntryPrepend(es, siteID, fxiletID, name, criticality, relevantComputerCount) ==
    <<Entry(siteID, fxiletID, name, criticality, relevantComputerCount)>> \o es

\* AddEntry
AddEntry(es, siteID, fxiletID, name, criticality, relevantComputerCount) ==
    Append(es, Entry(siteID, fxiletID, name, criticality, relevantComputerCount))

\* A slip: the loop keeps the last match instead of returning at the first.
RECURSIVE DeleteLastFrom(_, _, _)
DeleteLastFrom(es, fxiletID, i) ==
    IF i < 1 THEN [entries |-> es, out |-> <<Line("Entry not found.")>>]
    ELSE IF es[i].FxiletID = fxiletID
         THEN [entries |-> SubSeq(es, 1, i - 1) \o SubSeq(es, i + 1, Len(es)),
               out |-> <<>>]
    ELSE DeleteLastFrom(es, fxiletID, i - 1)

DeleteEntryLast(es, fxiletID) == DeleteLastFrom(es, fxiletID, Len(es))

RECURSIVE DeleteFrom(_, _, _)
DeleteFrom(es, fxiletID, i) ==
    IF i > Len(es) THEN [entries |-> es, out |-> <<Line("Entry not found.")>>]
    ELSE IF es[i].FxiletID = fxiletID
         THEN [entries |-> SubSeq(es, 1, i - 1) \o SubSeq(es, i + 1, Len(es)),
               out |-> <<>>]
    ELSE DeleteFrom(es, fxiletID, i + 1)

\* DeleteEntry: the slice it returns (its only result) and the lines it prints.
DeleteEntry(es, fxiletID) == DeleteFrom(es, fxiletID, 1)

\* A slip: the success message printed whatever WriteCSV returned.
SaveAlwaysSuccess(f, es, created, success) ==
    [file |-> WriteCSV(f, es, created).file,
     wrote |-> ~WriteCSV(f, es, created).err,
     out |-> <<Line(success)>>]

\* if err := WriteCSV(filename, entries); err != nil {...} else {...} of main:
\* the file afterwards, whether WriteCSV returned nil, and the line printed.
Save(f, es, created, success) ==
    [file |-> WriteCSV(f, es, created).file,
     wrote |-> ~WriteCSV(f, es, created).err,
     out |-> IF WriteCSV(f, es, created).err
             THEN <<Line("Error saving CSV file:")>>
             ELSE <<Line(success)>>]

\* fmt.Scanln(&v) on a line: v takes the token; with no token Scanln returns
\* an error and v keeps the value it had.
Scanln(line, v) == IF line = "" THEN v ELSE line

----------------------------------------------------------------------------
\* main

Menu == Line("Choose an operation: list, query, add, delete, sort, exit")

\* What the last step did (history, read by the properties only): the
\* operation run, the menu line read, the inputs read after it, the slice and
\* the file before the step, whether os.Open succeeded ("load"), and how the
\* step's WriteCSV ended ("none": not called, "ok": returned nil, "failed").
Step(op, line, key, query, rec, opened, write) ==
    [op |-> op, line |-> line, key |-> key, query |-> query, rec |-> rec,
     before |-> entries, fileBefore |-> file, opened |-> opened, write |-> write]

\* History for add followed at once by delete of the key just added: the slice
\* before the add and the record added.
NoUndo == [st |-> "none", s |-> <<>>, r |-> <<>>]

Init ==
    /\ pc = "start"
    /\ file \in InitFiles
    /\ entries = <<>>
    /\ command = ""
    /\ out = <<>>
    /\ last = [op |-> "none", line |-> "", key |-> 0, query |-> <<>>, rec |-> <<>>,
               before |-> <<>>, fileBefore |-> <<>>, opened |-> TRUE,
               write |-> "none"]
    /\ fails = 0
    /\ dirty = FALSE
    /\ undo = NoUndo

\* entries, err := ReadCSV(filename) and the return of main on an error.
Load ==
    /\ pc = "start"
    /\ \E opened \in BOOLEAN :
          /\ last' = Step("load", "", 0, <<>>, <<>>, opened, "none")
          /\ IF ReadCSV(opened, file).panic
             THEN pc' = "panicked" /\ out' = <<>> /\ entries' = <<>>
             ELSE IF ReadCSV(opened, file).err
                  THEN /\ pc' = "loadfailed"
                       /\ out' = <<Line("Error reading CSV file:")>>
                       /\ entries' = <<>>
                  ELSE /\ pc' = "prompt"
                       /\ out' = <<>>
                       /\ entries' = ReadCSV(opened, file).entries
    /\ UNCHANGED <<file, command, fails, dirty, undo>>

\* case "list"
CmdList ==
    /\ pc = "prompt"
    /\ \E line \in CommandLines :
          /\ Scanln(line, command) = "list"
          /\ command' = Scanln(line, command)
          /\ last' = Step("list", line, 0, <<>>, <<>>, TRUE, "none")
    /\ out' = <<Menu>> \o ListEntries(entries)
    /\ undo' = NoUndo
    /\ UNCHANGED <<pc, file, entries, fails, dirty>>

\* case "query"
CmdQuery ==
    /\ pc = "prompt"
    /\ \E line \in CommandLines, query \in Queries :
          /\ Scanln(line, command) = "query"
          /\ command' = Scanln(line, command)
          /\ last' = Step("query", line, 0, query, <<>>, TRUE, "none")
          /\ out' = <<Menu, Line("Enter name or criticality to query:")>>
                       \o QueryEntry(entries, query)
    /\ undo' = NoUndo
    /\ UNCHANGED <<pc, file, entries, fails, dirty>>

\* case "sort"
CmdSort ==
    /\ pc = "prompt"
    /\ \E line \in CommandLines :
          /\ Scanln(line, command) = "sort"
          /\ command' = Scanln(line, command)
          /\ last' = Step("sort", line, 0, <<>>, <<>>, TRUE, "none")
    /\ \E sorted \in SortEntries(entries) :
          /\ entries' = sorted
          /\ out' = <<Menu>> \o ListEntries(sorted)
    /\ dirty' = TRUE
    /\ undo' = NoUndo
    /\ UNCHANGED <<pc, file, fails>>

AddPrompts ==
    <<Line("Enter SiteID:"), Line("Enter FxiletID:"), Line("Enter name:"),
      Line("Enter criticality:"), Line("Enter relevant computer count:")>>

\* case "add"
CmdAdd ==
    /\ pc = "prompt"
    /\ Len(entries) < MaxLen
    /\ \E line \in CommandLines, r \in NewEntries, created \in BOOLEAN :
          /\ Scanln(line, command) = "add"
          /\ created \/ fails < MaxFails
          /\ command' = Scanln(line, command)
          /\ last' = Step("add", line, 0, <<>>, <<r>>, TRUE,
                          IF created THEN "ok" ELSE "failed")
          /\ LET es == AddEntry(entries, r.SiteID, r.FxiletID, r.Name, r.Criticality,
                                r.RelevantComputerCount)
                 sv == Save(file, es, created, "Entry added successfully.")
             IN  /\ entries' = es
                 /\ file' = sv.file
                 /\ out' = <<Menu>> \o AddPrompts \o sv.out
                 /\ dirty' = ~sv.wrote
          /\ fails' = IF created THEN fails ELSE fails + 1
          /\ undo' = [st |-> "added", s |-> entries, r |-> <<r>>]
    /\ UNCHANGED pc

\* case "delete"
CmdDelete ==
    /\ pc = "prompt"
    /\ \E line \in CommandLines, fxiletID \in DeleteKeys, created \in BOOLEAN :
          /\ Scanln(line, command) = "delete"
          /\ created \/ fails < MaxFails
          /\ command' = Scanln(line, command)
          /\ last' = Step("delete", line, fxiletID, <<>>, <<>>, TRUE,
                          IF created THEN "ok" ELSE "failed")
          /\ LET d  == DeleteEntry(entries, fxiletID)
                 sv == Save(file, d.entries, created, "Entry deleted successfully.")
             IN  /\ entries' = d.entries
                 /\ file' = sv.file
                 /\ out' = <<Menu, Line("Enter FxiletID of entry to delete:")>>
                              \o d.out \o sv.out
                 /\ dirty' = ~sv.wrote
          /\ fails' = IF created THEN fails ELSE fails + 1
          /\ undo' = IF undo.st = "added" /\ undo.r[1].FxiletID = fxiletID
                     THEN [undo EXCEPT !.st = "removed"]
                     ELSE NoUndo
    /\ UNCHANGED pc

\* case "exit"
CmdExit ==
    /\ pc = "prompt"
    /\ \E line \in CommandLines :
          /\ Scanln(line, command) = "exit"
          /\ command' = Scanln(line, command)
          /\ last' = Step("exit", line, 0, <<>>, <<>>, TRUE, "none")
    /\ pc' = "exited"
    /\ out' = <<Menu, Line("Exiting program.")>>
    /\ undo' = NoUndo
    /\ UNCHANGED <<file, entries, fails, dirty>>

\* default
CmdDefault ==
    /\ pc = "prompt"
    /\ \E line \in CommandLines :
          /\ Scanln(line, command)
                \notin {"list", "query", "add", "delete", "sort", "exit"}
          /\ command' = Scanln(line, command)
          /\ last' = Step("default", line, 0, <<>>, <<>>, TRUE, "none")
    /\ out' = <<Menu, Line("Invalid command.")>>
    /\ undo' = NoUndo
    /\ UNCHANGED <<pc, file, entries, fails, dirty>>

Next ==
    \/ Load
    \/ CmdList
    \/ CmdQuery
    \/ CmdSort
    \/ CmdAdd
    \/ CmdDelete
    \/ CmdExit
    \/ CmdDefault

Spec == Init /\ [][Next]_vars

----------------------------------------------------------------------------
\* The functions applied on their own to every slice over FnEntries

InitFn ==
    /\ pc = "fn"
    /\ entries \in SeqsUpTo(FnEntries, MaxSeq)
    /\ file = <<>>
    /\ command = ""
    /\ out = <<>>
    /\ last = [op |-> "none", line |-> "", key |-> 0, query |-> <<>>, rec |-> <<>>,
               before |-> <<>>, fileBefore |-> <<>>, opened |-> TRUE,
               write |-> "none"]
    /\ fails = 0
    /\ dirty = FALSE
    /\ undo = NoUndo

\* QueryEntry(entries, query)
FnQuery ==
    /\ pc = "fn"
    /\ \E query \in FnQueries :
          /\ last' = Step("query", "", 0, query, <<>>, TRUE, "none")
          /\ out' = QueryEntry(entries, query)
    /\ pc' = "fn.done"
    /\ UNCHANGED <<file, entries, command, fails, dirty, undo>>

\* SortEntries(entries)
FnSort ==
    /\ pc = "fn"
    /\ last' = Step("sort", "", 0, <<>>, <<>>, TRUE, "none")
    /\ entries' \in SortEntries(entries)
    /\ pc' = "fn.done"
    /\ UNCHANGED <<file, command, out, fails, dirty, undo>>

\* entries = AddEntry(entries, ...)
FnAdd ==
    /\ pc = "fn"
    /\ \E r \in FnEntries :
          /\ last' = Step("add", "", 0, <<>>, <<r>>, TRUE, "none")
          /\ entries' = AddEntry(entries, r.SiteID, r.FxiletID, r.Name, r.Criticality,
                                 r.RelevantComputerCount)
          /\ undo' = [st |-> "added", s |-> entries, r |-> <<r>>]
    /\ pc' = "fn.added"
    /\ UNCHANGED <<file, command, out, fails, dirty>>

\* entries = DeleteEntry(entries, fxiletID), on any slice and right after an add
FnDelete ==
    /\ pc \in {"fn", "fn.added"}
    /\ \E fxiletID \in FnKeys :
          /\ last' = Step("delete", "", fxiletID, <<>>, <<>>, TRUE, "none")
          /\ entries' = DeleteEntry(entries, fxiletID).entries
          /\ out' = DeleteEntry(entries, fxiletID).out
          /\ undo' = IF undo.st = "added" /\ undo.r[1].FxiletID = fxiletID
                     THEN [undo EXCEPT !.st = "removed"]
                     ELSE NoUndo
    /\ pc' = "fn.done"
    /\ UNCHANGED <<file, command, fails, dirty>>

NextFn ==
    \/ FnQuery
    \/ FnSort
    \/ FnAdd
    \/ FnDelete

SpecFn == InitFn /\ [][NextFn]_vars

----------------------------------------------------------------------------
\* Vocabulary of the properties

HasKey(s, k) == \E i \in 1..Len(s) : s[i].FxiletID = k

FirstIndex(s, k) ==
    CHOOSE i \in 1..Len(s) :
        s[i].FxiletID = k /\ \A j \in 1..(i - 1) : s[j].FxiletID # k

WithoutIndex(s, i) == [j \in 1..(Len(s) - 1) |-> IF j < i THEN s[j] ELSE s[j + 1]]

Printed(text) == \E i \in 1..Len(out) : out[i] = Line(text)

Occurrences(s, e) == Cardinality({ i \in 1..Len(s) : s[i] = e })

Ascending(s) ==
    \A i \in 1..(Len(s) - 1) :
        s[i].RelevantComputerCount <= s[i + 1].RelevantComputerCount

\* The records the program reads back from a file that opens.
Stored(f) == ReadCSV(TRUE, f)

\* The file holds the header and then exactly the records of es, in order,
\* each number written as a text that denotes it.
FileHolds(f, es) ==
    /\ Len(f) = Len(es) + 1
    /\ f[1] = HeaderRow
    /\ \A i \in 1..Len(es) :
          /\ ~f[i + 1].err
          /\ Len(f[i + 1].fields) = 5
          /\ Atoi(f[i + 1].fields[1]) = [ok |-> TRUE, val |-> es[i].SiteID]
          /\ Atoi(f[i + 1].fields[2]) = [ok |-> TRUE, val |-> es[i].FxiletID]
          /\ f[i + 1].fields[3] = es[i].Name
          /\ f[i + 1].fields[4] = es[i].Criticality
          /\ Atoi(f[i + 1].fields[5])
                = [ok |-> TRUE, val |-> es[i].RelevantComputerCount]

\* a and b are the same text up to the case of their letters
EqualFold(a, b) ==
    /\ Len(a) = Len(b)
    /\ \A k \in 1..Len(a) : ToLowerChar(a[k]) = ToLowerChar(b[k])

HasSubstringFold(text, q) ==
    \E i \in 1..(Len(text) + 1) :
        \E j \in (i - 1)..Len(text) : EqualFold(SubSeq(text, i, j), q)

Matches(e, q) == HasSubstringFold(e.Name, q) \/ HasSubstringFold(e.Criticality, q)

MenuWords == {"list", "query", "add", "delete", "sort", "exit"}

----------------------------------------------------------------------------
\* C1: the loop calls WriteCSV only after an add, or after a delete whose
\* FxiletID matched a record; list, query, sort, unrecognized input and a
\* delete of an absent FxiletID neither write the file nor print "Entry
\* deleted successfully.".  (Stated as claimed; the delete case of main
\* calls WriteCSV whatever DeleteEntry found.)
C1_SaveOnlyAfterSuccessfulMutation ==
    /\ last.write # "none" =>
          \/ last.op = "add"
          \/ last.op = "delete" /\ HasKey(last.before, last.key)
    /\ Printed("Entry deleted successfully.") =>
          last.op = "delete" /\ HasKey(last.before, last.key)

C3_AbsentKeyUnchangedAndFlagged ==
    (last.op = "delete" /\ ~HasKey(last.before, last.key)) =>
        /\ entries = last.before
        /\ Len(entries) = Len(last.before)
        /\ ~Printed("Entry deleted successfully.")

\* C4: for a FxiletID k that occurs in the slice, DeleteEntry removes exactly
\* the record at the lowest index with FxiletID k: the result is one shorter,
\* every other record (later records with FxiletID k too) is kept, in order.
C4_DeleteRemovesFirstMatchOnly ==
    (last.op = "delete" /\ HasKey(last.before, last.key)) =>
        LET m == FirstIndex(last.before, last.key)
        IN  /\ Len(entries) = Len(last.before) - 1
            /\ \A j \in 1..(m - 1) : entries[j] = last.before[j]
            /\ \A j \in (m + 1)..Len(last.before) : entries[j - 1] = last.before[j]

C4_Witness ==
    /\ last.op = "delete"
    /\ Len(last.before) = 3
    /\ last.before[1].FxiletID # last.key
    /\ last.before[2].FxiletID = last.key
    /\ last.before[3].FxiletID = last.key
    /\ last.before[2] # last.before[3]
    /\ entries = <<last.before[1], last.before[3]>>

\* C5 as claimed: AddEntry(s, r) followed by DeleteEntry with r's FxiletID
\* gives s back, for every s.
C5_AppendThenRemoveRestores ==
    undo.st = "removed" => entries = undo.s

\* C5 as amended: it gives s back when no record of s has r's FxiletID; when
\* one has, the first such record of s is removed and r stays at the end.
C5_AppendThenRemoveFirstMatch ==
    undo.st = "removed" =>
        IF ~HasKey(undo.s, undo.r[1].FxiletID)
        THEN entries = undo.s
        ELSE entries = Append(WithoutIndex(undo.s,
                                           FirstIndex(undo.s, undo.r[1].FxiletID)),
                              undo.r[1])

C5_Witness ==
    /\ undo.st = "removed"
    /\ Len(undo.s) >= 2
    /\ ~HasKey(undo.s, undo.r[1].FxiletID)
    /\ entries = undo.s

\* C6 as claimed: SortEntries yields a permutation of the records in ascending
\* order of RelevantComputerCount, and records with equal counts keep the
\* relative order they had.
C6_SortAscendingAndStable ==
    last.op = "sort" =>
        \E p \in Perms(Len(last.before)) :
            /\ entries = [i \in 1..Len(last.before) |-> last.before[p[i]]]
            /\ Ascending(entries)
            /\ \A i, j \in 1..Len(last.before) :
                  (i < j /\ last.before[p[i]].RelevantComputerCount
                              = last.before[p[j]].RelevantComputerCount)
                     => p[i] < p[j]

\* C6 as amended: SortEntries yields a permutation of the records in ascending
\* order of RelevantComputerCount (nothing is promised about equal counts).
C6_SortAscendingPermutation ==
    last.op = "sort" =>
        /\ Len(entries) = Len(last.before)
        /\ \A i \in 1..Len(entries) :
              Occurrences(entries, entries[i]) = Occurrences(last.before, entries[i])
        /\ Ascending(entries)

C6_Witness ==
    /\ last.op = "sort"
    /\ Len(entries) = 3
    /\ entries # last.before
    /\ entries[1].RelevantComputerCount < entries[3].RelevantComputerCount

\* C7: QueryEntry prints exactly one record when some record's name or
\* criticality contains the query case-insensitively: the matching record at
\* the lowest index; it prints "No entries found." when and only when no
\* record matches; it never changes the slice.
C7_QueryPrintsFirstMatch ==
    last.op = "query" =>
        LET M == { i \in 1..Len(last.before) : Matches(last.before[i], last.query) }
        IN  /\ M # {} =>
                  out = <<EntryLine(last.before[CHOOSE i \in M : \A j \in M : i <= j])>>
            /\ Printed("No entries found.") <=> M = {}
            /\ M = {} => Len(out) = 1
            /\ entries = last.before

C7_Witness ==
    /\ last.op = "query"
    /\ last.query = <<"L", "O">>
    /\ Len(last.before) = 3
    /\ ~Matches(last.before[1], last.query)
    /\ Matches(last.before[2], last.query)
    /\ Matches(last.before[3], last.query)
    /\ last.before[2] # last.before[3]
    /\ out = <<EntryLine(last.before[2])>>

C9_UnrecognizedLineIsInvalid ==
    (last.op \notin {"none", "load"} /\ last.line \notin MenuWords) =>
        /\ last.op = "default"
        /\ Printed("Invalid command.")
        /\ pc = "prompt"
        /\ entries = last.before
        /\ file = last.fileBefore

\* A row the load stops at: unreadable, or without the fields wanted.
Malformed(row, header) ==
    \/ row.err
    \/ Len(row.fields) # Len(header.fields)
    \/ Len(row.fields) < 5

\* The number of data rows before the first malformed one.
GoodRows(f) ==
    CHOOSE n \in 0..(Len(f) - 1) :
        /\ \A i \in 2..(n + 1) : ~Malformed(f[i], f[1])
        /\ n + 1 = Len(f) \/ Malformed(f[n + 2], f[1])

\* C10: on a file whose header is readable ReadCSV returns, without an error,
\* the records of the rows before the first unreadable or malformed row, in
\* order, and drops the rest silently.  (Stated as claimed; with a header of
\* fewer than five fields a row like it passes the Reader and record[4]
\* panics.)
C10_LoadKeepsRowsBeforeFirstBadRow ==
    (/\ last.op = "load"
     /\ last.opened
     /\ Len(last.fileBefore) >= 1
     /\ ~last.fileBefore[1].err) =>
        /\ pc = "prompt"
        /\ out = <<>>
        /\ entries = [i \in 1..GoodRows(last.fileBefore) |->
                         ParseRecord(last.fileBefore[i + 1].fields)]

\* C10 where the header has five fields or more: the load is as claimed.
C10_HoldsUnderHeaderOfFiveFields ==
    (/\ last.op = "load"
     /\ last.opened
     /\ Len(last.fileBefore) >= 1
     /\ ~last.fileBefore[1].err
     /\ Len(last.fileBefore[1].fields) >= 5) =>
        /\ pc = "prompt"
        /\ out = <<>>
        /\ entries = [i \in 1..GoodRows(last.fileBefore) |->
                         ParseRecord(last.fileBefore[i + 1].fields)]

====
